---- MODULE Spec2Model ----
(***************************************************************************)
(* Model of the bug reporter:                                              *)
(*   attach_file_to_issue  (src/jira_client.py 7-80)                       *)
(*   text_to_adf           (src/jira_client.py 83-118)                     *)
(*   create_issues         (src/jira_client.py 121-179)                    *)
(*   the clip planning loop (src/app.py 66-82)                             *)
(*   extract_video_clip    (src/video.py 47-64)                            *)
(*   find_candidate_seconds, analyze_with_transcript (src/analysis.py)     *)
(*   flatten_segments_text (src/utils.py 25-42)                            *)
(* Strings the code builds with f-strings are sequences of string chunks,  *)
(* so the empty string is <<>> and concatenation is \o.                    *)
(***************************************************************************)
EXTENDS Integers, Sequences, FiniteSets, TLC

VARIABLES
    at_pc,          \* attach_file_to_issue: "idle" | "loop" | "returned" | "raised"
    file,           \* the file found at file_path
    max_retries,    \* parameter max_retries
    attempt,        \* loop variable of `for attempt in range(max_retries)`
    last_error,     \* local last_error (None or a string)
    at_result,      \* the returned pair (success, message)
    trace,          \* requests.post / time.sleep calls made by the current call, in order
    last_outcome,   \* what the latest requests.post did (response or exception)
    ci_pc,          \* create_issues: "idle" | "loop" | "in_attach" | "returned" | "raised"
    config,         \* the four os.getenv values
    n_bugs,         \* len(bugs_list)
    idx,            \* loop variable idx of enumerate(bugs_list)
    b,              \* loop variable b: the record read last
    issue_key,      \* local issue_key
    errors,         \* local errors: the report
    ci_result,      \* what create_issues returned (or that it raised)
    creation_requests, \* POST /rest/api/3/issue calls made, in order
    n_created,      \* tickets the tracker has created (responses < 300)
    err_idx,        \* for each entry of errors, the record index that added it
    last,           \* facts about the iteration started last
    pl_pc,          \* clip planning loop: "idle" | "loop" | "done" | "raised"
    n_planned,      \* len(bugs_list) in the clip planning loop
    pl_idx,         \* loop variable idx of enumerate(bugs_list) in app.py
    video_clips,    \* keys of the dict video_clips
    extract_calls,  \* the idx of each call of extract_video_clip made by the loop, in order
    clip_warnings,  \* the idx of each st.warning of line 80, in order
    pl_last,        \* facts about the iteration of the planning loop started last
    ffmpeg_args,    \* ss and t of the latest ffmpeg command built by extract_video_clip
    raw,            \* resp.choices[0].message.content, the model's response
    parsed,         \* what find_candidate_seconds / analyze_with_transcript returned
    segments,       \* argument of flatten_segments_text
    flat,           \* what flatten_segments_text returned
    adf_text,       \* argument of a direct call of text_to_adf
    adf_doc         \* what that call returned

at_vars == <<at_pc, file, max_retries, attempt, last_error, at_result, trace, last_outcome>>
ci_vars == <<ci_pc, config, n_bugs, idx, b, issue_key, errors, ci_result,
             creation_requests, n_created, err_idx, last>>
pl_vars == <<pl_pc, n_planned, pl_idx, video_clips, extract_calls, clip_warnings, pl_last,
             ffmpeg_args>>
fn_vars == <<raw, parsed, segments, flat, adf_text, adf_doc>>
app_vars == <<pl_vars, fn_vars>>
vars == <<at_vars, ci_vars, app_vars>>

----------------------------------------------------------------------------
(* Bounds of the model *)

\* largest max_retries a direct caller passes
MaxRetriesBound == 4
\* longest bugs_list
MaxBugs == 3

----------------------------------------------------------------------------
(* Python values *)

MiB == 1024 * 1024

\* Optional string: None or a string (sequence of chunks)
NoneStr == [isNone |-> TRUE, val |-> <<>>]
SomeStr(s) == [isNone |-> FALSE, val |-> s]
\* Python truthiness of an optional string: None and "" are falsy
Truthy(x) == ~x.isNone /\ x.val # <<>>

\* Python slice s[a:b] of a sequence (0-based, clipped to the length)
Slice(s, lo, hi) ==
    LET top == IF hi < Len(s) THEN hi ELSE Len(s)
    IN  IF lo >= top THEN <<>> ELSE SubSeq(s, lo + 1, top)

Min2(x, y) == IF x < y THEN x ELSE y
Max2(x, y) == IF x > y THEN x ELSE y

----------------------------------------------------------------------------
(* Files on disk *)

FTYP == <<102, 116, 121, 112>>                   \* b'ftyp'
Lit0020ftyp == <<0, 0, 0, 32>> \o FTYP           \* b'\x00\x00\x00\x20ftyp'
HeaderMp4 == <<0, 0, 0, 32>> \o FTYP \o <<105, 115, 111, 109>>
HeaderMp4Alt == <<0, 0, 0, 24>> \o FTYP \o <<109, 112, 52, 50>>
HeaderMkv == <<26, 69, 223, 163, 1, 0, 0, 0, 0, 0, 0, 35>>
HeaderFtypFirst == FTYP \o <<0, 0, 0, 32, 0, 0, 0, 0>>

File(exists, readable, size, header) ==
    [exists |-> exists, readable |-> readable, size |-> size, header |-> header]

FileMissing == File(FALSE, FALSE, 0, <<>>)
FileEmpty == File(TRUE, TRUE, 0, <<>>)
FileTiny == File(TRUE, TRUE, 6, <<0, 0, 0, 32, 102, 116>>)
FileMp4Small == File(TRUE, TRUE, 2 * MiB, HeaderMp4)
FileMp4AtLimit == File(TRUE, TRUE, 10 * MiB, HeaderMp4Alt)
FileMp4OverLimit == File(TRUE, TRUE, 10 * MiB + 1, HeaderMp4)
FileMp4Eleven == File(TRUE, TRUE, 11 * MiB, HeaderMp4)
FileMkv == File(TRUE, TRUE, 2 * MiB, HeaderMkv)
FileFtypFirst == File(TRUE, TRUE, 3 * MiB, HeaderFtypFirst)
FileUnreadable == File(TRUE, FALSE, 4096, <<>>)

Files ==
    { FileMissing, FileEmpty, FileTiny, FileMp4Small, FileMp4AtLimit,
      FileMp4OverLimit, FileMp4Eleven, FileMkv, FileFtypFirst, FileUnreadable }

----------------------------------------------------------------------------
(* What one requests.post of the upload can do *)

Http(status, text) == [kind |-> "http", status |-> status, text |-> text]
Raises(kind, text) == [kind |-> kind, status |-> 0, text |-> text]
NoOutcome == [kind |-> "none", status |-> 0, text |-> ""]

UploadOutcomes ==
    { Http(200, "[{\"id\":\"1\"}]"), Http(302, "moved"), Http(400, "bad request"),
      Http(499, ""), Http(503, ""),
      Raises("Timeout", "read timed out"),
      Raises("RequestException", "connection reset"),
      Raises("Exception", "file vanished") }

----------------------------------------------------------------------------
(* attach_file_to_issue *)

Return(success, msg) == [raised |-> FALSE, success |-> success, msg |-> msg]
Raise(exc) == [raised |-> TRUE, success |-> FALSE, msg |-> <<exc>>]
NoResult == [raised |-> FALSE, success |-> FALSE, msg |-> <<"<running>">>]

\* the outer handler missing: the exception leaves the function
OuterExceptReraises(exc) == Raise(exc)

\* lines 79-80: the outer `except Exception`
OuterExcept(exc) == Return(FALSE, <<"Exception: ", exc>>)

\* line 19
SizeLimit == 10 * MiB
\* the limit itself taken as too large
TooLargeAtLimit(file_size) == file_size >= SizeLimit
TooLarge(file_size) == file_size > SizeLimit

\* line 20: f"{file_size / 1024 / 1024:.1f}" (one decimal, rounded)
OneDecimalMB(file_size) ==
    LET tenths == (file_size * 10 + MiB \div 2) \div MiB
    IN  <<ToString(tenths \div 10), ".", ToString(tenths % 10)>>

\* line 26
HasMp4Signature(header) ==
    Slice(header, 4, 8) = FTYP \/ Slice(header, 0, 4) = Lit0020ftyp

\* lines 11-27: pre-flight validation; [ok |-> TRUE] or the result returned
Validate(f) ==
    IF ~f.exists THEN [ok |-> FALSE, result |-> Return(FALSE, <<"File not found: ", "<path>">>)]
    ELSE IF f.size = 0 THEN [ok |-> FALSE, result |-> Return(FALSE, <<"File is empty">>)]
    ELSE IF TooLarge(f.size)
        THEN [ok |-> FALSE,
              result |-> Return(FALSE, <<"File too large: ">> \o OneDecimalMB(f.size)
                                          \o <<"MB (max 10MB)">>)]
    ELSE IF ~f.readable THEN [ok |-> FALSE, result |-> OuterExcept("PermissionError")]
    ELSE IF ~HasMp4Signature(Slice(f.header, 0, 12))
        THEN [ok |-> FALSE, result |-> Return(FALSE, <<"File does not appear to be a valid MP4">>)]
    ELSE [ok |-> TRUE, result |-> NoResult]

\* one second per MiB without the floor of 60
TimeoutSecondsNoFloor(file_size) == Min2(file_size \div MiB, 300)
\* line 48
TimeoutSeconds(file_size) == Min2(Max2(60, file_size \div MiB), 300)

\* redirects taken as success
IsSuccessBelow400(status) == status < 400
\* line 58
IsSuccess(status) == status < 300
\* 400 itself left out of the client errors
IsClientErrorAbove400(status) == 400 < status /\ status < 500
\* line 64
IsClientError(status) == 400 <= status /\ status < 500
\* line 61 (the response texts of the model are shorter than 500 characters)
ErrorText(text) == IF text # "" THEN text ELSE "No error message"
\* lines 62, 67, 69, 71: the error recorded for attempt k of mr
AttemptTag(k, mr) == <<"(attempt ", ToString(k + 1), "/", ToString(mr), ")">>
ErrorOf(o, k, mr) ==
    CASE o.kind = "http" -> <<"HTTP ", ToString(o.status), ": ", ErrorText(o.text)>>
      [] o.kind = "Timeout" -> <<"Upload timeout ">> \o AttemptTag(k, mr)
      [] o.kind = "RequestException" ->
            <<"Network error ">> \o AttemptTag(k, mr) \o <<": ", o.text>>
      [] OTHER -> <<"Unexpected error ">> \o AttemptTag(k, mr) \o <<": ", o.text>>

\* a sleep after the final attempt too
SleepsAfterEvery(k, mr) == k < mr
\* line 74
SleepsAfter(k, mr) == k < mr - 1
\* 2 * attempt for 2 ** attempt
WaitTimeDoubled(k) == 2 * k
\* line 75
WaitTime(k) == 2 ^ k
\* line 78
FinalMessage(le) == IF Truthy(le) THEN le.val ELSE <<"Upload failed after all retries">>

\* trace entries: a requests.post (arg: its timeout, status: the response status, 0
\* when it raised) or a time.sleep (arg: the seconds)
PostEvent(k, t, status) == [ev |-> "post", attempt |-> k, arg |-> t, status |-> status]
SleepEvent(k, secs) == [ev |-> "sleep", attempt |-> k, arg |-> secs, status |-> 0]

\* lines 9-35: the call up to the retry loop (the file name sent, lines 29-32,
\* decides nothing and is left out)
AttachStart(f, mr) ==
    LET v == Validate(f) IN
    /\ file' = f
    /\ max_retries' = mr
    /\ attempt' = 0
    /\ last_error' = NoneStr
    /\ trace' = <<>>
    /\ last_outcome' = NoOutcome
    /\ IF v.ok
         THEN at_pc' = "loop" /\ at_result' = NoResult
         ELSE /\ at_pc' = IF v.result.raised THEN "raised" ELSE "returned"
              /\ at_result' = v.result

\* lines 36-76: one iteration of the retry loop, for the outcome o of requests.post
AttachAttempt(o) ==
    /\ at_pc = "loop"
    /\ attempt < max_retries
    /\ last_outcome' = o
    /\ LET posted == Append(trace, PostEvent(attempt, TimeoutSeconds(file.size), o.status))
           err == ErrorOf(o, attempt, max_retries)
           slept == IF SleepsAfter(attempt, max_retries)
                      THEN Append(posted, SleepEvent(attempt, WaitTime(attempt)))
                      ELSE posted
       IN  IF o.kind = "http" /\ IsSuccess(o.status)
             THEN /\ at_pc' = "returned"
                  /\ at_result' = Return(TRUE, <<>>)
                  /\ trace' = posted
                  /\ UNCHANGED <<attempt, last_error>>
           ELSE IF o.kind = "http" /\ IsClientError(o.status)
             THEN /\ at_pc' = "returned"
                  /\ at_result' = Return(FALSE, err)
                  /\ last_error' = SomeStr(err)
                  /\ trace' = posted
                  /\ UNCHANGED attempt
           ELSE /\ last_error' = SomeStr(err)
                /\ trace' = slept
                /\ attempt' = attempt + 1
                /\ UNCHANGED <<at_pc, at_result>>
    /\ UNCHANGED <<file, max_retries>>

\* line 78: the loop is exhausted
AttachExhausted ==
    /\ at_pc = "loop"
    /\ attempt >= max_retries
    /\ at_pc' = "returned"
    /\ at_result' = Return(FALSE, FinalMessage(last_error))
    /\ UNCHANGED <<file, max_retries, attempt, last_error, trace, last_outcome>>

----------------------------------------------------------------------------
(* text_to_adf *)

\* Python values a JSON record can hold under a key
PyStr(chars) == [type |-> "str", s |-> chars, i |-> 0]
PyInt(i) == [type |-> "int", s |-> <<>>, i |-> i]
PyNone == [type |-> "NoneType", s |-> <<>>, i |-> 0]
\* `not text`
Falsy(v) ==
    \/ v.type = "NoneType"
    \/ v.type = "str" /\ v.s = <<>>
    \/ v.type = "int" /\ v.i = 0

Whitespace == {" ", "\n", "\t", "\r"}

RECURSIVE LStrip(_)
LStrip(s) == IF s # <<>> /\ Head(s) \in Whitespace THEN LStrip(Tail(s)) ELSE s
RECURSIVE RStrip(_)
RStrip(s) ==
    IF s # <<>> /\ s[Len(s)] \in Whitespace THEN RStrip(SubSeq(s, 1, Len(s) - 1)) ELSE s
\* str.strip()
Strip(s) == RStrip(LStrip(s))

\* str.split("\n")
RECURSIVE SplitLines(_)
SplitLines(s) ==
    IF \A k \in 1..Len(s) : s[k] # "\n" THEN <<s>>
    ELSE LET k == CHOOSE j \in 1..Len(s) : s[j] = "\n" /\ \A m \in 1..(j - 1) : s[m] # "\n"
         IN  <<SubSeq(s, 1, k - 1)>> \o SplitLines(SubSeq(s, k + 1, Len(s)))

TextNode(chars) == [type |-> "text", text |-> chars]
Paragraph(nodes) == [type |-> "paragraph", content |-> nodes]
Doc(paragraphs) == [version |-> 1, type |-> "doc", content |-> paragraphs]

\* lines 95-105
RECURSIVE ParagraphsOf(_)
ParagraphsOf(lines) ==
    IF lines = <<>> THEN <<>>
    ELSE (IF Strip(Head(lines)) # <<>>
            THEN <<Paragraph(<<TextNode(Strip(Head(lines)))>>)>>
            ELSE <<>>) \o ParagraphsOf(Tail(lines))

\* lines 83-118; raises AttributeError when text is truthy and has no .strip
text_to_adf(text) ==
    IF Falsy(text) THEN [raised |-> FALSE, exc |-> "", doc |-> Doc(<<>>)]
    ELSE IF text.type # "str"
        THEN [raised |-> TRUE,
              exc |-> "AttributeError: object has no attribute 'strip'",
              doc |-> Doc(<<>>)]
    ELSE LET paragraphs == ParagraphsOf(SplitLines(Strip(text.s)))
         IN  [raised |-> FALSE, exc |-> "",
              doc |-> Doc(IF paragraphs = <<>> THEN <<Paragraph(<<>>)>> ELSE paragraphs)]

----------------------------------------------------------------------------
(* create_issues *)

\* os.getenv: None when unset, possibly "" when set
EnvValues == {NoneStr, SomeStr(<<>>), SomeStr(<<"v">>)}
Configs ==
    [JIRA_URL : EnvValues, JIRA_TOKEN : EnvValues, JIRA_EMAIL : EnvValues,
     JIRA_PROJECT : EnvValues]
NoConfig ==
    [JIRA_URL |-> NoneStr, JIRA_TOKEN |-> NoneStr, JIRA_EMAIL |-> NoneStr,
     JIRA_PROJECT |-> NoneStr]

\* the project key left out of the check
ConfigPresentNoProject(cfg) ==
    Truthy(cfg.JIRA_URL) /\ Truthy(cfg.JIRA_TOKEN) /\ Truthy(cfg.JIRA_EMAIL)

\* line 133
ConfigPresent(cfg) ==
    Truthy(cfg.JIRA_URL) /\ Truthy(cfg.JIRA_TOKEN) /\ Truthy(cfg.JIRA_EMAIL)
        /\ Truthy(cfg.JIRA_PROJECT)

\* line 7: default of max_retries, used by the call at lines 172-173
DefaultMaxRetries == 3

\* Items of bugs_list, as json.loads yields them
Dict(fields) == [is_dict |-> TRUE, fields |-> fields]
RecFull ==
    Dict([description |-> PyStr(<<"a", "\n", "\n", " ", "b", " ">>),
          summary |-> PyStr(<<"S">>), priority |-> PyStr(<<"High">>)])
RecNumberDescription == Dict([description |-> PyInt(7), summary |-> PyStr(<<"S">>)])
RecNotDict == [is_dict |-> FALSE, fields |-> [item |-> PyStr(<<"S">>)]]
NoRecord == [is_dict |-> FALSE, fields |-> [item |-> PyNone]]
BugRecords == {RecFull, RecNumberDescription, RecNotDict}

\* dict.get(key, default)
Get(rec, key, default) ==
    IF key \in DOMAIN rec.fields THEN rec.fields[key] ELSE default

\* lines 139-150: description_text, description_adf, payload.  Not inside the try.
BuildPayload(rec, cfg) ==
    IF ~rec.is_dict
      THEN [raised |-> TRUE, exc |-> "AttributeError: object has no attribute 'get'",
            payload |-> <<>>]
    ELSE LET adf == text_to_adf(Get(rec, "description", PyStr(<<>>)))
         IN  IF adf.raised THEN [raised |-> TRUE, exc |-> adf.exc, payload |-> <<>>]
             ELSE [raised |-> FALSE, exc |-> "",
                   payload |-> <<[project |-> cfg.JIRA_PROJECT.val,
                                  summary |-> Get(rec, "summary", PyStr(<<"QA Bug">>)).s,
                                  description |-> adf.doc,
                                  issuetype |-> "Bug",
                                  priority |-> Get(rec, "priority", PyStr(<<"Medium">>)).s]>>]

\* What the POST of the creation can do: a response (status, text, and what
\* resp.json() gives) or a raised requests exception
Response(status, text, json, has_key) ==
    [kind |-> "http", status |-> status, text |-> text, json |-> json, has_key |-> has_key]
CreateOutcomes ==
    { Response(201, "{\"key\": ..}", "object", TRUE),
      Response(201, "{}", "object", FALSE),
      Response(201, "<html>", "invalid", FALSE),
      Response(300, "multiple choices", "invalid", FALSE),
      Response(400, "{\"errors\": ..}", "object", FALSE),
      Response(500, "", "invalid", FALSE),
      [kind |-> "ConnectionError", status |-> 0, text |-> "connection refused",
       json |-> "invalid", has_key |-> FALSE] }

\* video_clips.get(idx): no entry, or the file at the path stored
NoClip == [present |-> FALSE, file |-> FileMissing]
Clip(f) == [present |-> TRUE, file |-> f]
\* the files video_clips may point at
ClipFiles == {FileMissing, FileEmpty, FileMkv, FileMp4OverLimit, FileMp4Small}
ClipOptions == {NoClip} \cup {Clip(f) : f \in ClipFiles}

\* the three shapes of report entries (lines 134, 161, 176, 178)
ErrorEntry(text) == [type |-> "error", status |-> 0, text |-> text]
StatusEntry(status, body) == [type |-> "status", status |-> status, text |-> <<body>>]
WarningEntry(key, msg) ==
    [type |-> "warning", status |-> 0,
     text |-> <<"Failed to attach video to ">> \o key \o <<": ">> \o msg]

\* only 4xx and 5xx taken as failures
CreationFailedFrom400(status) == status >= 400
\* line 160
CreationFailed(status) == status >= 300
\* the same record is taken again
LoopNextSame(i) == i
\* line 138: enumerate moves on to the next record
LoopNext(i) == i + 1
\* lines 177-178
CatchInLoop(exc) == ErrorEntry(<<exc>>)
\* the key the tracker gives the next ticket
TrackerKey(n) == SomeStr(<<"QA-", ToString(n + 1)>>)

Report(entries) == [raised |-> FALSE, exc |-> "", report |-> entries]
Propagates(exc) == [raised |-> TRUE, exc |-> exc, report |-> <<>>]
NoReport == [raised |-> FALSE, exc |-> "", report |-> <<[type |-> "<running>", status |-> 0, text |-> <<>>]>>]

\* last: idx the record index; posted: the creation request was sent; status: its
\* response status (0 when it raised); exc: an exception was raised while processing
\* the record; created: the response was < 300; key: issue_key; clip: the entry found
\* by `idx in video_clips`; attach_called / attached / reason: the call of
\* attach_file_to_issue and the pair it returned
NoLast ==
    [idx |-> -1, posted |-> FALSE, status |-> 0, exc |-> FALSE, created |-> FALSE,
     key |-> NoneStr, clip |-> NoClip, attach_called |-> FALSE, attached |-> FALSE,
     reason |-> <<>>]

AttachIdle ==
    /\ at_pc' = "idle"
    /\ file' = FileMissing
    /\ max_retries' = 0
    /\ attempt' = 0
    /\ last_error' = NoneStr
    /\ at_result' = NoResult
    /\ trace' = <<>>
    /\ last_outcome' = NoOutcome

\* the map not consulted
ClipAssumed(clip) == TRUE
\* lines 169-171: `idx in video_clips` and os.path.exists(video_path)
ClipToAttach(clip) == clip.present /\ clip.file.exists

\* lines 138-173: one pass of the loop body for record rec, up to the call of
\* attach_file_to_issue; co is what the creation POST does, clip the entry of
\* video_clips for i.  step: "raise" (the exception leaves create_issues),
\* "attach" (attach_file_to_issue is called) or "next" (on to the next record).
IterationOutcome(i, rec, co, clip, cfg, created) ==
    LET p == BuildPayload(rec, cfg)
        key == IF co.has_key THEN TrackerKey(created) ELSE NoneStr
        base == [NoLast EXCEPT !.idx = i]
        sent == [base EXCEPT !.posted = TRUE, !.status = co.status]
        ok == [sent EXCEPT !.created = TRUE]
    IN  IF p.raised
          THEN [step |-> "raise", exc |-> p.exc, entries |-> <<>>, key_set |-> FALSE,
                key |-> NoneStr, last |-> [base EXCEPT !.exc = TRUE]]
        ELSE IF co.kind # "http"
          THEN [step |-> "next", exc |-> "", entries |-> <<CatchInLoop(co.text)>>,
                key_set |-> FALSE, key |-> NoneStr, last |-> [sent EXCEPT !.exc = TRUE]]
        ELSE IF CreationFailed(co.status)
          THEN [step |-> "next", exc |-> "",
                entries |-> <<StatusEntry(co.status, co.text)>>,
                key_set |-> FALSE, key |-> NoneStr, last |-> sent]
        ELSE IF co.json # "object"
          THEN [step |-> "next", exc |-> "", entries |-> <<CatchInLoop("JSONDecodeError")>>,
                key_set |-> FALSE, key |-> NoneStr, last |-> [ok EXCEPT !.exc = TRUE]]
        ELSE IF ~Truthy(key)
          THEN [step |-> "next", exc |-> "", entries |-> <<>>, key_set |-> TRUE,
                key |-> key, last |-> [ok EXCEPT !.key = key]]
        ELSE IF ClipToAttach(clip)
          THEN [step |-> "attach", exc |-> "", entries |-> <<>>, key_set |-> TRUE,
                key |-> key,
                last |-> [ok EXCEPT !.key = key, !.clip = clip, !.attach_called = TRUE]]
        ELSE [step |-> "next", exc |-> "", entries |-> <<>>, key_set |-> TRUE,
              key |-> key, last |-> [ok EXCEPT !.key = key, !.clip = clip]]

\* a failed attachment reported as a warning and as an error
AttachmentEntriesTwice(result, key) ==
    IF result.raised THEN <<CatchInLoop(result.msg[1])>>
    ELSE IF ~result.success
      THEN <<WarningEntry(key, result.msg), CatchInLoop("attachment failed")>>
    ELSE <<>>

\* lines 174-178: what the returned pair (or an exception) adds to the report
AttachmentEntries(result, key) ==
    IF result.raised THEN <<CatchInLoop(result.msg[1])>>
    ELSE IF ~result.success THEN <<WarningEntry(key, result.msg)>>
    ELSE <<>>

----------------------------------------------------------------------------
(* The clip planning loop (src/app.py 66-82) and extract_video_clip          *)
(* (src/video.py 47-64).  start_sec and end_sec are floats in the code; the   *)
(* model counts them in tenths of a second, so 2 s is 20 and 0.1 s is 1.      *)

\* app.py line 72-73: the padding of 2 s, in tenths
Padding == 20
\* app.py line 70: the length of 5 s given to a record without end_sec, in tenths
DefaultLength == 50
\* video.py line 55: the least duration of 0.1 s, in tenths
MinDuration == 1

\* start_sec and end_sec the model's response may give, in tenths
StartSecs == {5, 10, 100}
EndSecs == {30, 60, 120}
\* items of bugs_list as the planning loop reads them: with and without the two keys
TimedRecords ==
    {Dict([summary |-> PyStr(<<"S">>), start_sec |-> st, end_sec |-> en]) :
        st \in StartSecs, en \in EndSecs}
    \cup {Dict([summary |-> PyStr(<<"S">>), start_sec |-> st]) : st \in StartSecs}
    \cup {Dict([summary |-> PyStr(<<"S">>), end_sec |-> en]) : en \in EndSecs}
    \cup {Dict([summary |-> PyStr(<<"S">>)]), RecNotDict}

Window(from, to) == [start |-> from, end |-> to]

\* the default of end_sec taken from the start already padded
ClipWindowDefaultAfterPadding(rec) ==
    LET start_sec == Max2(0, Get(rec, "start_sec", 0) - Padding)
        end_sec == Get(rec, "end_sec", start_sec + DefaultLength)
    IN  Window(start_sec, end_sec + Padding)
\* app.py lines 69-73
ClipWindow(rec) ==
    LET start_sec == Get(rec, "start_sec", 0)
        end_sec == Get(rec, "end_sec", start_sec + DefaultLength)
    IN  Window(Max2(0, start_sec - Padding), end_sec + Padding)

\* the difference passed on as it is
DurationUnclamped(start_sec, end_sec) == end_sec - start_sec
\* video.py line 55
Duration(start_sec, end_sec) == Max2(MinDuration, end_sec - start_sec)

\* video.py lines 57-64: ffmpeg.input(video_path, ss=start_sec) and output(.., t=duration)
\* start_sec and end_sec are the arguments of the call
FfmpegArgs(start_sec, end_sec) ==
    [called |-> TRUE, start_sec |-> start_sec, end_sec |-> end_sec,
     ss |-> start_sec, t |-> Duration(start_sec, end_sec)]
NoFfmpeg == [called |-> FALSE, start_sec |-> 0, end_sec |-> 0, ss |-> 0, t |-> 0]

\* the exception leaves the loop
ExtractionFailedAborts(i) == [pc |-> "raised", warned |-> <<>>]
\* app.py lines 79-80: the exception is caught, a warning shown, the loop goes on
ExtractionFailed(i) == [pc |-> "loop", warned |-> <<i>>]

\* pl_last: idx the record index; rec the record; requested: extract_video_clip was
\* called; window: its start_sec and end_sec; returned: it gave a clip path
NoPlan ==
    [idx |-> -1, rec |-> NoRecord, requested |-> FALSE, window |-> Window(0, 0),
     returned |-> FALSE]

PlannerIdle ==
    /\ pl_pc = "idle"
    /\ n_planned = 0
    /\ pl_idx = 0
    /\ video_clips = {}
    /\ extract_calls = <<>>
    /\ clip_warnings = <<>>
    /\ pl_last = NoPlan
    /\ ffmpeg_args = NoFfmpeg

----------------------------------------------------------------------------
(* find_candidate_seconds and analyze_with_transcript (src/analysis.py).    *)
(* A response is a sequence of tokens; json.loads is a parser of the JSON   *)
(* texts these tokens can spell.                                            *)

\* longest response, in tokens
MaxLen == 4

\* a number, a string, the punctuation of JSON, and a word that is not JSON
Tokens == {"[", "]", "{", "}", ",", ":", "1", "\"k\"", "x"}
Texts == UNION {[1..n -> Tokens] : n \in 0..MaxLen}
\* message.content: None or a text
Responses == {NoneStr} \cup {SomeStr(t) : t \in Texts}

\* JSON values as json.loads builds them: keys and items are those of a dict,
\* items alone those of a list
JInt(n) == [type |-> "int", s |-> "", n |-> n, keys |-> <<>>, items |-> <<>>]
JStr(chars) == [type |-> "str", s |-> chars, n |-> 0, keys |-> <<>>, items |-> <<>>]
JList(items) == [type |-> "list", s |-> "", n |-> 0, keys |-> <<>>, items |-> items]
JDict(keys, values) == [type |-> "dict", s |-> "", n |-> 0, keys |-> keys, items |-> values]

Parsed(v, p) == [ok |-> TRUE, val |-> v, next |-> p]
\* json.JSONDecodeError
DecodeError == [ok |-> FALSE, val |-> JInt(0), next |-> 0]

RECURSIVE ParseValue(_, _), ParseItems(_, _, _), ParseMember(_, _)
\* the JSON value that starts at token p of txt
ParseValue(txt, p) ==
    IF p > Len(txt) THEN DecodeError
    ELSE IF txt[p] = "1" THEN Parsed(JInt(1), p + 1)
    ELSE IF txt[p] = "\"k\"" THEN Parsed(JStr("k"), p + 1)
    ELSE IF txt[p] = "["
      THEN IF p < Len(txt) /\ txt[p + 1] = "]" THEN Parsed(JList(<<>>), p + 2)
           ELSE ParseItems(txt, p + 1, <<>>)
    ELSE IF txt[p] = "{"
      THEN IF p < Len(txt) /\ txt[p + 1] = "}" THEN Parsed(JDict(<<>>, <<>>), p + 2)
           ELSE ParseMember(txt, p + 1)
    ELSE DecodeError
\* the items of an array from token p on; acc holds the items before
ParseItems(txt, p, acc) ==
    LET v == ParseValue(txt, p)
    IN  IF ~v.ok \/ v.next > Len(txt) THEN DecodeError
        ELSE IF txt[v.next] = "," THEN ParseItems(txt, v.next + 1, Append(acc, v.val))
        ELSE IF txt[v.next] = "]" THEN Parsed(JList(Append(acc, v.val)), v.next + 1)
        ELSE DecodeError
\* the members of an object from token p on; every key is "k", so a later
\* member replaces the earlier one
ParseMember(txt, p) ==
    IF p >= Len(txt) \/ txt[p] # "\"k\"" \/ txt[p + 1] # ":" THEN DecodeError
    ELSE LET v == ParseValue(txt, p + 2)
         IN  IF ~v.ok \/ v.next > Len(txt) THEN DecodeError
             ELSE IF txt[v.next] = "," THEN ParseMember(txt, v.next + 1)
             ELSE IF txt[v.next] = "}"
               THEN Parsed(JDict(<<"k">>, <<v.val>>), v.next + 1)
             ELSE DecodeError
\* json.loads: the whole text is one value
Loads(txt) ==
    LET v == ParseValue(txt, 1)
    IN  IF v.ok /\ v.next = Len(txt) + 1 THEN v ELSE DecodeError

\* the last occurrence taken for the first
FindLast(txt, ch) ==
    IF \E k \in 1..Len(txt) : txt[k] = ch
      THEN (CHOOSE k \in 1..Len(txt) : txt[k] = ch /\ \A m \in (k + 1)..Len(txt) : txt[m] # ch) - 1
      ELSE -1
\* str.find: the 0-based index of the first occurrence, or -1
Find(txt, ch) ==
    IF \E k \in 1..Len(txt) : txt[k] = ch
      THEN (CHOOSE k \in 1..Len(txt) : txt[k] = ch /\ \A m \in 1..(k - 1) : txt[m] # ch) - 1
      ELSE -1
\* str.rfind: the 0-based index of the last occurrence, or -1
RFind(txt, ch) ==
    IF \E k \in 1..Len(txt) : txt[k] = ch
      THEN (CHOOSE k \in 1..Len(txt) : txt[k] = ch /\ \A m \in (k + 1)..Len(txt) : txt[m] # ch) - 1
      ELSE -1

\* `content or default`
OrDefault(content, default) == IF Truthy(content) THEN content.val ELSE default

\* analysis.py lines 30-35 and 82-87: the text between the first `open` and the
\* last `close`, or `default` when one of them is missing
Bracketed(txt, open, close, default) ==
    LET start_idx == Find(txt, open)
        end_idx == RFind(txt, close)
    IN  IF start_idx # -1 /\ end_idx # -1 THEN Slice(txt, start_idx, end_idx + 1)
        ELSE default

Returned(by, v) == [by |-> by, raised |-> FALSE, val |-> v]
NotCalled == [by |-> "", raised |-> FALSE, val |-> JInt(0)]

\* analysis.py line 37
ParsingFailed ==
    JDict(<<"candidates", "notes">>, <<JList(<<>>), JStr("Parsing failed")>>)

\* analysis.py lines 26-37
find_candidate_seconds(content) ==
    LET txt == OrDefault(content, <<"{", "}">>)
        strict == Loads(txt)
        fp_slice == Loads(Bracketed(txt, "{", "}", <<"{", "}">>))
    IN  Returned("find_candidate_seconds",
                 IF strict.ok THEN strict.val
                 ELSE IF fp_slice.ok THEN fp_slice.val
                 ELSE ParsingFailed)

\* analysis.py lines 78-89
analyze_with_transcript(content) ==
    LET txt == OrDefault(content, <<"[", "]">>)
        strict == Loads(txt)
        slice_ == Loads(Bracketed(txt, "[", "]", <<"[", "]">>))
    IN  Returned("analyze_with_transcript",
                 IF strict.ok THEN strict.val
                 ELSE IF slice_.ok THEN slice_.val
                 ELSE JList(<<>>))

----------------------------------------------------------------------------
(* flatten_segments_text (src/utils.py 25-42).  start and end are floats,   *)
(* counted in tenths of a second; the text is a sequence of characters.     *)

\* longest list of segments
MaxSegments == 2

\* a dict (hasattr(seg, "get")) or a TranscriptionSegment object
DictSegment(fields) == [is_dict |-> TRUE, fields |-> fields]
ObjectSegment(fields) == [is_dict |-> FALSE, fields |-> fields]
\* start and end in tenths: -1.5 s, 2.9 s, 100.5 s
SegmentStarts == {-15, 29}
SegmentEnds == {29, 1005}
SegmentTexts == {<<" ", "a", " ">>, <<"a", "\n", "b">>}
SegmentFields ==
    [start : SegmentStarts, end : SegmentEnds, text : SegmentTexts]
    \cup [start : SegmentStarts, text : SegmentTexts]
    \cup [end : SegmentEnds, text : SegmentTexts]
    \cup [start : SegmentStarts, end : SegmentEnds]
SegmentValues ==
    {DictSegment(f) : f \in SegmentFields} \cup {ObjectSegment(f) : f \in SegmentFields}
SegmentLists == UNION {[1..n -> SegmentValues] : n \in 0..MaxSegments}

\* int(x) of a float: the fraction is dropped, towards zero
IntTruncated(tenths) == IF tenths >= 0 THEN tenths \div 10 ELSE -((-tenths) \div 10)

DigitChars == <<"0", "1", "2", "3", "4", "5", "6", "7", "8", "9">>
RECURSIVE Decimal(_)
Decimal(n) ==
    IF n < 10 THEN <<DigitChars[n + 1]>>
    ELSE Decimal(n \div 10) \o <<DigitChars[(n % 10) + 1]>>
\* str(n) of an int
StrInt(n) == IF n < 0 THEN <<"-">> \o Decimal(-n) ELSE Decimal(n)
\* the format {n:>3}: right-aligned in a field of 3, longer numbers in full
RightAligned3(n) ==
    LET digits == StrInt(n)
    IN  [j \in 1..Max2(0, 3 - Len(digits)) |-> " "] \o digits

\* utils.py lines 31-41: dict.get and getattr read the segment the same way
SegmentLine(seg) ==
    LET start_s == IF "start" \in DOMAIN seg.fields THEN IntTruncated(seg.fields.start) ELSE 0
        end_s == IF "end" \in DOMAIN seg.fields THEN IntTruncated(seg.fields.end)
                 ELSE Max2(start_s, 0)
        text == Strip(Get(seg, "text", <<>>))
    IN  <<"[">> \o RightAligned3(start_s) \o <<"-">> \o RightAligned3(end_s)
          \o <<"s", "]", " ">> \o text

\* "\n".join(lines)
RECURSIVE Join(_)
Join(lines) ==
    IF lines = <<>> THEN <<>>
    ELSE IF Len(lines) = 1 THEN lines[1]
    ELSE lines[1] \o <<"\n">> \o Join(Tail(lines))

\* utils.py lines 25-42
flatten_segments_text(segs) == Join([j \in 1..Len(segs) |-> SegmentLine(segs[j])])

NoFlat == [called |-> FALSE, out |-> <<>>]

NoDoc == [called |-> FALSE, raised |-> FALSE, exc |-> "", doc |-> Doc(<<>>)]

FunctionsIdle ==
    /\ raw = NoneStr
    /\ parsed = NotCalled
    /\ segments = <<>>
    /\ flat = NoFlat
    /\ adf_text = PyNone
    /\ adf_doc = NoDoc

----------------------------------------------------------------------------
(* The state machine *)

JiraIdle ==
    /\ at_pc = "idle"
    /\ file = FileMissing
    /\ max_retries = 0
    /\ attempt = 0
    /\ last_error = NoneStr
    /\ at_result = NoResult
    /\ trace = <<>>
    /\ last_outcome = NoOutcome
    /\ ci_pc = "idle"
    /\ config = NoConfig
    /\ n_bugs = 0
    /\ idx = 0
    /\ b = NoRecord
    /\ issue_key = NoneStr
    /\ errors = <<>>
    /\ ci_result = NoReport
    /\ creation_requests = <<>>
    /\ n_created = 0
    /\ err_idx = <<>>
    /\ last = NoLast

Init == JiraIdle /\ PlannerIdle /\ FunctionsIdle

\* a caller other than create_issues calls attach_file_to_issue
CallAttach ==
    /\ at_pc = "idle" /\ ci_pc = "idle"
    /\ \E f \in Files, mr \in 0..MaxRetriesBound : AttachStart(f, mr)
    /\ UNCHANGED <<ci_vars, app_vars>>

Attempt ==
    /\ \E o \in UploadOutcomes : AttachAttempt(o)
    /\ UNCHANGED <<ci_vars, app_vars>>

Exhausted ==
    /\ AttachExhausted
    /\ UNCHANGED <<ci_vars, app_vars>>

\* lines 127-136
CallCreateIssues ==
    /\ at_pc = "idle" /\ ci_pc = "idle"
    /\ \E cfg \in Configs, n \in 0..MaxBugs :
          /\ config' = cfg
          /\ n_bugs' = n
          /\ IF ConfigPresent(cfg)
               THEN ci_pc' = "loop" /\ ci_result' = NoReport
               ELSE /\ ci_pc' = "returned"
                    /\ ci_result' =
                         Report(<<ErrorEntry(<<"Missing Jira environment variables">>)>>)
    /\ idx' = 0
    /\ errors' = <<>>
    /\ UNCHANGED <<b, issue_key, creation_requests, n_created, err_idx, last, at_vars,
                   app_vars>>

\* lines 138-173.  enumerate reads each record once and line 169 looks each index
\* up once, so the record and the entry of video_clips are drawn when they are read.
CIIteration ==
    /\ ci_pc = "loop"
    /\ idx < n_bugs
    /\ \E rec \in BugRecords, co \in CreateOutcomes, clip \in ClipOptions :
          LET r == IterationOutcome(idx, rec, co, clip, config, n_created) IN
          /\ b' = rec
          /\ last' = r.last
          /\ errors' = errors \o r.entries
          /\ err_idx' = IF r.entries = <<>> THEN err_idx ELSE Append(err_idx, idx)
          /\ creation_requests' =
                IF r.last.posted
                  THEN Append(creation_requests, [idx |-> idx, status |-> r.last.status])
                  ELSE creation_requests
          /\ n_created' = IF r.last.created THEN n_created + 1 ELSE n_created
          /\ issue_key' = IF r.key_set THEN r.key ELSE issue_key
          /\ CASE r.step = "raise" ->
                    /\ ci_pc' = "raised"
                    /\ ci_result' = Propagates(r.exc)
                    /\ UNCHANGED <<idx, at_vars>>
               [] r.step = "attach" ->
                    /\ ci_pc' = "in_attach"
                    /\ AttachStart(clip.file, DefaultMaxRetries)
                    /\ UNCHANGED <<idx, ci_result>>
               [] OTHER ->
                    /\ idx' = LoopNext(idx)
                    /\ UNCHANGED <<ci_pc, ci_result, at_vars>>
    /\ UNCHANGED <<config, n_bugs, app_vars>>

\* lines 172-178: attach_file_to_issue has returned to create_issues
CIAttachReturn ==
    /\ ci_pc = "in_attach"
    /\ at_pc \in {"returned", "raised"}
    /\ LET entries == AttachmentEntries(at_result, issue_key.val) IN
          /\ errors' = errors \o entries
          /\ err_idx' = IF entries = <<>> THEN err_idx ELSE Append(err_idx, idx)
    /\ last' = [last EXCEPT !.attached = ~at_result.raised /\ at_result.success,
                            !.exc = at_result.raised,
                            !.reason = at_result.msg]
    /\ idx' = LoopNext(idx)
    /\ ci_pc' = "loop"
    /\ AttachIdle
    /\ UNCHANGED <<config, n_bugs, b, issue_key, ci_result, creation_requests, n_created,
                   app_vars>>

\* line 179
CIReturn ==
    /\ ci_pc = "loop"
    /\ idx >= n_bugs
    /\ ci_pc' = "returned"
    /\ ci_result' = Report(errors)
    /\ UNCHANGED <<config, n_bugs, idx, b, issue_key, errors, creation_requests,
                   n_created, err_idx, last, at_vars, app_vars>>

Next ==
    \/ CallAttach
    \/ Attempt
    \/ Exhausted
    \/ CallCreateIssues
    \/ CIIteration
    \/ CIAttachReturn
    \/ CIReturn

Spec == Init /\ [][Next]_vars

\* attach_file_to_issue alone, called directly.  The call runs on one thread and
\* every blocking step ends (requests.post has a timeout, time.sleep is finite),
\* so a step that can be taken is taken.
NextUpload == CallAttach \/ Attempt \/ Exhausted
SpecUpload == Init /\ [][NextUpload]_vars /\ WF_vars(NextUpload)

\* app.py lines 66-67: video_clips = {} and `if bugs_list:`
StartPlanning ==
    /\ pl_pc = "idle"
    /\ \E n \in 0..MaxBugs :
          /\ n_planned' = n
          /\ pl_pc' = IF n = 0 THEN "done" ELSE "loop"
    /\ pl_idx' = 0
    /\ video_clips' = {}
    /\ extract_calls' = <<>>
    /\ clip_warnings' = <<>>
    /\ UNCHANGED <<pl_last, ffmpeg_args, fn_vars, at_vars, ci_vars>>

\* app.py lines 68-80: one pass of the loop.  The record is drawn when enumerate
\* reads it; extract_video_clip returns a path or raises (ffmpeg fails).
PlanIteration ==
    /\ pl_pc = "loop"
    /\ pl_idx < n_planned
    /\ \E rec \in TimedRecords, returns \in BOOLEAN :
          IF ~rec.is_dict
            THEN \* bug.get at line 69 raises AttributeError, outside the try
                 /\ pl_pc' = "raised"
                 /\ pl_last' = [NoPlan EXCEPT !.idx = pl_idx, !.rec = rec]
                 /\ UNCHANGED <<pl_idx, video_clips, extract_calls, clip_warnings,
                                ffmpeg_args>>
            ELSE LET w == ClipWindow(rec)
                     failed == ExtractionFailed(pl_idx)
                 IN  /\ extract_calls' = Append(extract_calls, pl_idx)
                     /\ ffmpeg_args' = FfmpegArgs(w.start, w.end)
                     /\ pl_last' = [idx |-> pl_idx, rec |-> rec, requested |-> TRUE,
                                    window |-> w, returned |-> returns]
                     /\ IF returns
                          THEN /\ video_clips' = video_clips \cup {pl_idx}
                               /\ pl_idx' = pl_idx + 1
                               /\ UNCHANGED <<pl_pc, clip_warnings>>
                          ELSE /\ clip_warnings' = clip_warnings \o failed.warned
                               /\ pl_pc' = failed.pc
                               /\ pl_idx' = IF failed.pc = "loop" THEN pl_idx + 1 ELSE pl_idx
                               /\ UNCHANGED video_clips
    /\ UNCHANGED <<n_planned, fn_vars, at_vars, ci_vars>>

\* app.py line 68: enumerate is exhausted
PlanDone ==
    /\ pl_pc = "loop"
    /\ pl_idx >= n_planned
    /\ pl_pc' = "done"
    /\ UNCHANGED <<n_planned, pl_idx, video_clips, extract_calls, clip_warnings, pl_last,
                   ffmpeg_args, fn_vars, at_vars, ci_vars>>

\* start_sec and end_sec of a call of extract_video_clip from elsewhere, in tenths
DirectSecs == {-30, 0, 10, 100}
\* video.py lines 47-64, called outside the planning loop
CallExtract ==
    /\ pl_pc = "idle"
    /\ \E start_sec \in DirectSecs, end_sec \in DirectSecs :
          ffmpeg_args' = FfmpegArgs(start_sec, end_sec)
    /\ pl_last' = NoPlan
    /\ UNCHANGED <<pl_pc, n_planned, pl_idx, video_clips, extract_calls, clip_warnings,
                   fn_vars, at_vars, ci_vars>>

NextPlan == StartPlanning \/ PlanIteration \/ PlanDone \/ CallExtract
SpecPlan == Init /\ [][NextPlan]_vars

\* The functions of analysis.py, applied to every response
InitAnalysis ==
    /\ JiraIdle /\ PlannerIdle
    /\ raw \in Responses
    /\ parsed = NotCalled
    /\ segments = <<>>
    /\ flat = NoFlat
    /\ adf_text = PyNone
    /\ adf_doc = NoDoc

FindCandidateSeconds ==
    /\ parsed = NotCalled
    /\ parsed' = find_candidate_seconds(raw)
    /\ UNCHANGED <<raw, segments, flat, adf_text, adf_doc, pl_vars, at_vars, ci_vars>>

AnalyzeWithTranscript ==
    /\ parsed = NotCalled
    /\ parsed' = analyze_with_transcript(raw)
    /\ UNCHANGED <<raw, segments, flat, adf_text, adf_doc, pl_vars, at_vars, ci_vars>>

NextAnalysis == FindCandidateSeconds \/ AnalyzeWithTranscript
SpecAnalysis == InitAnalysis /\ [][NextAnalysis]_vars

\* flatten_segments_text, applied to every list of segments
InitFlatten ==
    /\ JiraIdle /\ PlannerIdle
    /\ raw = NoneStr
    /\ parsed = NotCalled
    /\ segments \in SegmentLists
    /\ flat = NoFlat
    /\ adf_text = PyNone
    /\ adf_doc = NoDoc

FlattenSegmentsText ==
    /\ ~flat.called
    /\ flat' = [called |-> TRUE, out |-> flatten_segments_text(segments)]
    /\ UNCHANGED <<raw, parsed, segments, adf_text, adf_doc, pl_vars, at_vars, ci_vars>>

NextFlatten == FlattenSegmentsText
SpecFlatten == InitFlatten /\ [][NextFlatten]_vars

\* characters of the texts given to text_to_adf
AdfChars == {"a", "b", " ", "\n"}
AdfTexts ==
    {PyNone, PyInt(0), PyInt(7)}
    \cup {PyStr(t) : t \in UNION {[1..n -> AdfChars] : n \in 0..MaxLen}}

\* text_to_adf, applied to every text
InitAdf ==
    /\ JiraIdle /\ PlannerIdle
    /\ raw = NoneStr
    /\ parsed = NotCalled
    /\ segments = <<>>
    /\ flat = NoFlat
    /\ adf_text \in AdfTexts
    /\ adf_doc = NoDoc

TextToAdf ==
    /\ ~adf_doc.called
    /\ LET r == text_to_adf(adf_text)
       IN  adf_doc' = [called |-> TRUE, raised |-> r.raised, exc |-> r.exc, doc |-> r.doc]
    /\ UNCHANGED <<raw, parsed, segments, flat, adf_text, pl_vars, at_vars, ci_vars>>

NextAdf == TextToAdf
SpecAdf == InitAdf /\ [][NextAdf]_vars

----------------------------------------------------------------------------
(* Properties of attach_file_to_issue *)

Posts(tr) == Cardinality({j \in 1..Len(tr) : tr[j].ev = "post"})
Sleeps(tr) == Cardinality({j \in 1..Len(tr) : tr[j].ev = "sleep"})
\* a trace as the list of its calls: "post", or the seconds slept
Calls(tr) == [j \in 1..Len(tr) |-> IF tr[j].ev = "post" THEN "post" ELSE ToString(tr[j].arg)]
Statuses(tr) == [j \in 1..Len(tr) |-> tr[j].status]
\* the latest requests.post raised, or answered 5xx
FailedRetryably(o) ==
    \/ o.kind \in {"Timeout", "RequestException", "Exception"}
    \/ o.kind = "http" /\ o.status >= 500

\* C1: once an attempt receives a status in 400..499 the call has returned
\* (False, message) right after that attempt: the trace ends with that request,
\* no sleep follows it and no further request is made; a 4xx on the first
\* attempt leaves exactly one request and no sleep.
C1_ClientErrorIsTerminal ==
    (last_outcome.kind = "http" /\ last_outcome.status \in 400..499) =>
        /\ at_pc = "returned"
        /\ ~at_result.raised /\ ~at_result.success
        /\ at_result.msg # <<>>
        /\ at_result.msg[1] = "HTTP " /\ at_result.msg[2] = ToString(last_outcome.status)
        /\ trace # <<>>
        /\ trace[Len(trace)].ev = "post"
        /\ trace[Len(trace)].status = last_outcome.status
        /\ \A j \in 1..(Len(trace) - 1) : trace[j].status \notin 400..499
        /\ Posts(trace) = attempt + 1
        /\ Sleeps(trace) = attempt
        /\ (attempt = 0 => Calls(trace) = <<"post">>)

C1_Witness ==
    /\ at_pc = "returned"
    /\ file = FileMp4Small
    /\ last_outcome = Http(400, "bad request")
    /\ attempt = 0
    /\ Calls(trace) = <<"post">>

\* C2: a sleep is made only right after a request that failed with attempts
\* remaining, lasts 2^k seconds after attempt k, and is followed by attempt k+1;
\* every attempt k < max_retries - 1 that ends in a 5xx or an exception is
\* followed by that sleep.  With max_retries = 3 and responses 503, 503, 200 the
\* call returns success after post, sleep 1, post, sleep 2, post.
C2_BackoffBetweenAttempts ==
    /\ \A j \in 1..Len(trace) :
          trace[j].ev = "sleep" =>
            /\ j > 1
            /\ trace[j - 1].ev = "post"
            /\ trace[j - 1].attempt = trace[j].attempt
            /\ trace[j].attempt < max_retries - 1
            /\ trace[j].arg = 2 ^ trace[j].attempt
            /\ IF j < Len(trace)
                 THEN trace[j + 1].ev = "post" /\ trace[j + 1].attempt = trace[j].attempt + 1
                 ELSE at_pc = "loop" /\ attempt = trace[j].attempt + 1 /\ attempt < max_retries
    /\ \A j \in 1..Len(trace) :
          (/\ trace[j].ev = "post"
           /\ trace[j].status = 0 \/ trace[j].status >= 500
           /\ trace[j].attempt < max_retries - 1) =>
            /\ j < Len(trace)
            /\ trace[j + 1].ev = "sleep"
            /\ trace[j + 1].arg = 2 ^ trace[j].attempt
    /\ (/\ at_pc = "returned"
        /\ max_retries = 3
        /\ Statuses(SelectSeq(trace, LAMBDA e : e.ev = "post")) = <<503, 503, 200>>) =>
            /\ at_result = [raised |-> FALSE, success |-> TRUE, msg |-> <<>>]
            /\ Calls(trace) = <<"post", "1", "post", "2", "post">>

C2_Witness ==
    /\ at_pc = "returned"
    /\ file = FileMp4Small
    /\ max_retries = 3
    /\ Statuses(trace) = <<503, 0, 503, 0, 200>>
    /\ at_result.success

\* the file fails a pre-flight check: missing, empty, over 10 MiB, or no 'ftyp'
\* in bytes 4..7 of its header (none can be read of a file that does not open)
FailsPreflight(f) ==
    \/ ~f.exists
    \/ f.size = 0
    \/ f.size > 10485760
    \/ ~f.readable
    \/ Len(f.header) < 8
    \/ SubSeq(f.header, 5, 8) # <<102, 116, 121, 112>>

\* C3: for a file that is missing, empty, larger than 10 MiB or without the
\* 'ftyp' signature the call returns (False, non-empty message) with no request
\* and no sleep made; any other file, one of exactly 10 MiB included, passes
\* validation and is uploaded (when max_retries allows an attempt).
C3_ValidationFailsWithoutRequests ==
    /\ (at_pc # "idle" /\ FailsPreflight(file)) =>
          /\ at_pc = "returned"
          /\ ~at_result.raised /\ ~at_result.success
          /\ at_result.msg # <<>>
          /\ trace = <<>>
          /\ attempt = 0
    /\ (at_pc = "returned" /\ ~FailsPreflight(file) /\ max_retries > 0) =>
          Posts(trace) >= 1

C3_Witness ==
    /\ at_pc = "returned"
    /\ file = FileMp4Eleven
    /\ ~at_result.success
    /\ trace = <<>>

\* C4: a call never makes more than max_retries requests.  When it made
\* attempts and every one failed with a 5xx or an exception, it made exactly
\* max_retries requests and max_retries - 1 sleeps, the last call being a
\* request, and returned (False, m) with m the error of the last attempt.
C4_RetriesBounded ==
    /\ Posts(trace) <= max_retries
    /\ (/\ at_pc = "returned"
        /\ trace # <<>>
        /\ \A j \in 1..Len(trace) :
              trace[j].ev = "post" => (trace[j].status = 0 \/ trace[j].status >= 500)) =>
            /\ Posts(trace) = max_retries
            /\ Sleeps(trace) = max_retries - 1
            /\ trace[Len(trace)].ev = "post"
            /\ trace[Len(trace)].attempt = max_retries - 1
            /\ FailedRetryably(last_outcome)
            /\ at_result =
                 [raised |-> FALSE, success |-> FALSE,
                  msg |-> ErrorOf(last_outcome, max_retries - 1, max_retries)]

C4_Witness ==
    /\ at_pc = "returned"
    /\ max_retries = 3
    /\ Statuses(trace) = <<503, 0, 0, 0, 503>>
    /\ last_outcome = Http(503, "")
    /\ at_result.msg = <<"HTTP ", "503", ": ", "No error message">>

\* C5: a call never raises; whenever it has returned, it returned a pair whose
\* message is empty exactly when success is true; and every call returns.
C5_AlwaysReturnsPair ==
    /\ [](at_pc # "raised")
    /\ [](at_pc = "returned" =>
            /\ ~at_result.raised
            /\ at_result.success \in BOOLEAN
            /\ (at_result.msg = <<>>) <=> at_result.success)
    /\ (at_pc # "idle") ~> (at_pc = "returned")

C5_Witness ==
    /\ at_pc = "returned"
    /\ file = FileUnreadable
    /\ ~at_result.success
    /\ at_result.msg = <<"Exception: ", "PermissionError">>

----------------------------------------------------------------------------
(* Properties of create_issues *)

\* all four settings are non-empty strings
AllSettingsGiven ==
    \A v \in {config.JIRA_URL, config.JIRA_TOKEN, config.JIRA_EMAIL, config.JIRA_PROJECT} :
        ~v.isNone /\ v.val # <<>>
\* the positions of the report entries record i added
EntriesOf(i) == {j \in 1..Len(errors) : err_idx[j] = i}
StatusEntries == {j \in 1..Len(errors) : errors[j].type = "status"}
RequestStatuses == [j \in 1..Len(creation_requests) |-> creation_requests[j].status]
\* the iteration `last` describes is over
LastIsOver == last.idx >= 0 /\ ci_pc \in {"loop", "returned"}

\* C6: the report holds one {status, body} entry for each creation response
\* >= 300 and none for the others; the record whose creation got such a response
\* added exactly that entry and the loop went on to the next record; the tickets
\* created are the responses < 300.  With 3 records of which only the 2nd
\* creation fails, the report has one creation-error entry and 2 tickets exist.
C6_CreationFailureRecordedAndSkipped ==
    /\ Cardinality(StatusEntries)
         = Cardinality({j \in 1..Len(creation_requests) : creation_requests[j].status >= 300})
    /\ n_created
         = Cardinality({j \in 1..Len(creation_requests) :
                          creation_requests[j].status \in 1..299})
    /\ (last.idx >= 0 /\ last.posted /\ last.status >= 300) =>
          /\ ci_pc \in {"loop", "returned"}
          /\ idx = last.idx + 1
          /\ Cardinality(EntriesOf(last.idx)) = 1
          /\ \A j \in EntriesOf(last.idx) :
                errors[j].type = "status" /\ errors[j].status = last.status
    /\ (last.idx >= 0 /\ last.posted /\ last.status \in 1..299) =>
          \A j \in EntriesOf(last.idx) : errors[j].type # "status"
    /\ (/\ ci_pc = "returned"
        /\ Len(RequestStatuses) = 3
        /\ RequestStatuses[1] \in 1..299
        /\ RequestStatuses[2] >= 300
        /\ RequestStatuses[3] \in 1..299) =>
          Cardinality(StatusEntries) = 1 /\ n_created = 2

C6_Witness ==
    /\ ci_pc = "returned"
    /\ n_bugs = 3
    /\ RequestStatuses = <<201, 400, 201>>
    /\ Cardinality(StatusEntries) = 1
    /\ errors[1] = [type |-> "status", status |-> 400, text |-> <<"{\"errors\": ..}">>]
    /\ n_created = 2

\* C7: the creation requests made are those of records 0, 1, 2, ... in order,
\* one each: none is sent twice, whatever the response or exception; at the top
\* of the loop every earlier record has had its request, and when create_issues
\* returns with the settings given every record has had exactly one, a record
\* without a clip included.
C7_OneCreationRequestPerRecord ==
    /\ \A j \in 1..Len(creation_requests) : creation_requests[j].idx = j - 1
    /\ Len(creation_requests) <= n_bugs
    /\ ci_pc = "loop" => Len(creation_requests) = idx
    /\ ci_pc = "in_attach" => Len(creation_requests) = idx + 1
    /\ (ci_pc = "returned" /\ AllSettingsGiven) => Len(creation_requests) = n_bugs
    /\ (LastIsOver /\ ~last.exc /\ ~last.clip.present) =>
          /\ last.posted
          /\ creation_requests[last.idx + 1].idx = last.idx

C7_Witness ==
    /\ ci_pc = "returned"
    /\ n_bugs = 3
    /\ RequestStatuses = <<500, 0, 201>>
    /\ [j \in 1..3 |-> creation_requests[j].idx] = <<0, 1, 2>>
    /\ last.created /\ Truthy(last.key) /\ ~last.clip.present

\* C8: when one of the four settings is missing or empty, create_issues returns
\* a report of exactly one {error} entry and makes no creation request and no
\* upload, for every length of the bug list.
C8_MissingConfigShortCircuits ==
    (ci_pc # "idle" /\ ~AllSettingsGiven) =>
        /\ ci_pc = "returned"
        /\ ~ci_result.raised
        /\ Len(ci_result.report) = 1
        /\ ci_result.report[1].type = "error"
        /\ ci_result.report[1].text # <<>>
        /\ creation_requests = <<>>
        /\ n_created = 0
        /\ at_pc = "idle" /\ trace = <<>>
        /\ last = NoLast

C8_Witness ==
    /\ ci_pc = "returned"
    /\ n_bugs = 3
    /\ config = [JIRA_URL |-> SomeStr(<<"v">>), JIRA_TOKEN |-> SomeStr(<<"v">>),
                 JIRA_EMAIL |-> SomeStr(<<"v">>), JIRA_PROJECT |-> SomeStr(<<>>)]
    /\ Len(ci_result.report) = 1

\* C9: when the ticket of a record was created, the clip map has an entry for
\* the record and the attachment did not succeed, the record added exactly one
\* {warning} entry, which names the ticket's key.
C9_FailedAttachmentWarned ==
    (LastIsOver /\ last.created /\ ~last.exc /\ last.clip.present /\ ~last.attached) =>
        /\ Cardinality(EntriesOf(last.idx)) = 1
        /\ \A j \in EntriesOf(last.idx) :
              /\ errors[j].type = "warning"
              /\ SubSeq(errors[j].text, 2, 1 + Len(last.key.val)) = last.key.val

\* C10: create_issues never raises; a record whose processing raised an
\* exception added exactly one {error} entry and the loop went on to the next
\* record.
C10_ExceptionsCaughtPerRecord ==
    /\ ci_pc # "raised"
    /\ (last.idx >= 0 /\ last.exc /\ ci_pc # "in_attach") =>
          /\ idx = last.idx + 1
          /\ Cardinality(EntriesOf(last.idx)) = 1
          /\ \A j \in EntriesOf(last.idx) : errors[j].type = "error"

\* C18: attach_file_to_issue is called for a record only after its creation
\* request was answered with a status < 300 and video_clips has an entry for
\* it, never after a creation that failed or raised; while the upload runs
\* (retries and sleeps included) no creation request is sent, the request of
\* the next record follows its return; and each upload is for a later record
\* than the one before, so a record has at most one.
C18_UploadOnlyAfterCreationAndInTurn ==
    /\ [](last.attach_called =>
            /\ last.posted /\ last.created /\ last.status \in 1..299
            /\ last.clip.present
            /\ Truthy(last.key)
            /\ creation_requests[last.idx + 1] = [idx |-> last.idx, status |-> last.status])
    /\ []((last.posted /\ ~last.status \in 1..299) =>
            ~last.attach_called /\ ci_pc # "in_attach")
    /\ []((ci_pc # "idle" /\ at_pc # "idle") =>
            /\ ci_pc = "in_attach"
            /\ last.attach_called
            /\ last.idx = idx
            /\ Len(creation_requests) = idx + 1)
    /\ [][creation_requests' # creation_requests =>
            /\ at_pc = "idle"
            /\ ci_pc = "loop"
            /\ Len(creation_requests') = Len(creation_requests) + 1]_vars
    /\ [][(ci_pc # "idle" /\ at_pc = "idle" /\ at_pc' # "idle") =>
            /\ last'.attach_called
            /\ last'.idx = idx
            /\ last.idx < idx
            /\ trace' = <<>>]_vars
    /\ [][(ci_pc = "in_attach" /\ ci_pc' # "in_attach") =>
            /\ at_pc \in {"returned", "raised"}
            /\ at_pc' = "idle"
            /\ idx' = idx + 1
            /\ creation_requests' = creation_requests]_vars

C18_Witness ==
    /\ ci_pc = "in_attach"
    /\ idx = 1
    /\ n_bugs = 3
    /\ at_pc = "loop"
    /\ Calls(trace) = <<"post", "1", "post", "2">>
    /\ RequestStatuses = <<400, 201>>

\* C20: an upload response with a status in 300..399 does not end the call at
\* that attempt: its error becomes last_error, and as after a 5xx the call
\* sleeps 2^attempt seconds and makes the next attempt when one remains, or
\* returns that error once the attempts are used up; a call that returns before
\* its attempts are used up does so after a status < 300 or in 400..499.
C20_RedirectRetriedLikeServerError ==
    /\ \A j \in 1..Len(trace) :
          (trace[j].ev = "post" /\ trace[j].status \in 300..399) =>
              IF trace[j].attempt < max_retries - 1
                THEN /\ j < Len(trace)
                     /\ trace[j + 1] = [ev |-> "sleep", attempt |-> trace[j].attempt,
                                        arg |-> 2 ^ trace[j].attempt, status |-> 0]
                     /\ IF j + 1 < Len(trace)
                          THEN /\ trace[j + 2].ev = "post"
                               /\ trace[j + 2].attempt = trace[j].attempt + 1
                          ELSE at_pc = "loop" /\ attempt = trace[j].attempt + 1
                ELSE /\ j = Len(trace)
                     /\ attempt = max_retries
                     /\ at_pc \in {"loop", "returned"}
    /\ (last_outcome.kind = "http" /\ last_outcome.status \in 300..399) =>
          /\ last_error.val
               = <<"HTTP ", ToString(last_outcome.status), ": ",
                   IF last_outcome.text = "" THEN "No error message" ELSE last_outcome.text>>
          /\ at_pc = "returned" =>
                /\ attempt = max_retries
                /\ at_result = [raised |-> FALSE, success |-> FALSE, msg |-> last_error.val]
    /\ (at_pc = "returned" /\ trace # <<>> /\ attempt < max_retries) =>
          \/ trace[Len(trace)].status \in 1..299
          \/ trace[Len(trace)].status \in 400..499

C20_Witness ==
    /\ at_pc = "returned"
    /\ max_retries = 2
    /\ Statuses(trace) = <<302, 0, 302>>
    /\ Calls(trace) = <<"post", "1", "post">>
    /\ at_result.msg[2] = "302"

\* C21: every upload request is sent with a timeout of 60 seconds: the file
\* of a call that sends a request has at most 10 MiB, so its size in whole MiB
\* is at most 10 and the timeout is 60 on every attempt.
C21_TimeoutAlwaysSixty ==
    \A j \in 1..Len(trace) :
        trace[j].ev = "post" =>
            /\ trace[j].arg = 60
            /\ file.size <= 10 * MiB
            /\ file.size \div MiB <= 10
            /\ \A m \in 1..Len(trace) : trace[m].ev = "post" => trace[m].arg = trace[j].arg

C21_Witness ==
    /\ at_pc = "returned"
    /\ file.size = 10 * MiB
    /\ Calls(trace) = <<"post", "1", "post">>
    /\ trace[1].arg = 60 /\ trace[3].arg = 60

\* C22: with the settings given, each record has added at most one entry to
\* the report, so the report is no longer than the list of records; the
\* entries are in the order of their records; a step of create_issues leaves
\* the entries it found as they are and adds at most one; and the report
\* returned is these entries.
C22_AtMostOneEntryPerRecord ==
    /\ [](AllSettingsGiven =>
            /\ Len(err_idx) = Len(errors)
            /\ \A i \in 0..(n_bugs - 1) : Cardinality(EntriesOf(i)) <= 1
            /\ \A j \in 1..Len(errors) :
                  /\ err_idx[j] \in 0..(n_bugs - 1)
                  /\ errors[j].type \in {"status", "warning", "error"}
                  /\ \A m \in 1..(j - 1) : err_idx[m] < err_idx[j]
            /\ Len(errors) <= n_bugs
            /\ ci_pc = "returned" =>
                  /\ ~ci_result.raised
                  /\ ci_result.report = errors
                  /\ Len(ci_result.report) <= n_bugs)
    /\ [][/\ Len(errors') >= Len(errors)
          /\ Len(errors') <= Len(errors) + 1
          /\ SubSeq(errors', 1, Len(errors)) = errors]_vars

C22_Witness ==
    /\ ci_pc = "returned"
    /\ n_bugs = 3
    /\ Len(ci_result.report) = 3
    /\ [j \in 1..3 |-> errors[j].type] = <<"status", "warning", "error">>
    /\ err_idx = <<0, 1, 2>>

----------------------------------------------------------------------------
(* Properties of the clip planning loop and of extract_video_clip *)

\* the record indexes in a list of indexes
Indexes(seq) == {seq[j] : j \in 1..Len(seq)}

\* C11: the calls of extract_video_clip made by the planning loop are those of
\* records 0, 1, 2, ... in order, one each, whatever earlier calls did; when the
\* loop has ended every record has had its call; video_clips has key i exactly
\* when the call for record i returned (the others were warned about); and
\* after a call that raised the loop is at the next record, it has not aborted.
C11_ExtractionOncePerRecord ==
    /\ \A j \in 1..Len(extract_calls) : extract_calls[j] = j - 1
    /\ Len(extract_calls) <= n_planned
    /\ pl_pc = "loop" => Len(extract_calls) = pl_idx
    /\ pl_pc = "done" => Len(extract_calls) = n_planned
    /\ video_clips \cup Indexes(clip_warnings) = Indexes(extract_calls)
    /\ video_clips \cap Indexes(clip_warnings) = {}
    /\ pl_last.requested => (pl_last.returned <=> pl_last.idx \in video_clips)
    /\ (pl_last.requested /\ ~pl_last.returned) =>
          /\ pl_pc \in {"loop", "done"}
          /\ pl_idx = pl_last.idx + 1
          /\ clip_warnings # <<>>
          /\ clip_warnings[Len(clip_warnings)] = pl_last.idx

C11_Witness ==
    /\ pl_pc = "done"
    /\ n_planned = 3
    /\ extract_calls = <<0, 1, 2>>
    /\ clip_warnings = <<0, 2>>
    /\ video_clips = {1}

\* C12: the window handed to extract_video_clip is (max(0, start_sec - 2),
\* end_sec + 2), with end_sec taken as start_sec + 5 when the record has none
\* (times in tenths of a second); its start is never negative; start 1 s and
\* end 3 s give (0, 5), start 10 s without end gives (8, 17).
C12_PaddedWindow ==
    pl_last.requested =>
        LET f == pl_last.rec.fields
            given_start == IF "start_sec" \in DOMAIN f THEN f.start_sec ELSE 0
            given_end == IF "end_sec" \in DOMAIN f THEN f.end_sec ELSE given_start + 50
        IN  /\ pl_last.window.start = (IF given_start >= 20 THEN given_start - 20 ELSE 0)
            /\ pl_last.window.end = given_end + 20
            /\ pl_last.window.start >= 0
            /\ ffmpeg_args.start_sec = pl_last.window.start
            /\ ffmpeg_args.end_sec = pl_last.window.end
            /\ (given_start = 10 /\ given_end = 30) => pl_last.window = Window(0, 50)
            /\ (given_start = 100 /\ "end_sec" \notin DOMAIN f) =>
                  pl_last.window = Window(80, 170)

C12_Witness ==
    /\ pl_last.requested
    /\ "start_sec" \in DOMAIN pl_last.rec.fields
    /\ "end_sec" \notin DOMAIN pl_last.rec.fields
    /\ pl_last.rec.fields.start_sec = 100
    /\ pl_last.window = Window(80, 170)

\* C19: the duration handed to ffmpeg is always positive: it is end_sec -
\* start_sec when that is at least 0.1 s and 0.1 s otherwise, so for an inverted
\* or empty range, also one the planner's padding produced, it is 0.1 s (times
\* in tenths of a second).
C19_PositiveDuration ==
    ffmpeg_args.called =>
        LET length == ffmpeg_args.end_sec - ffmpeg_args.start_sec
        IN  /\ ffmpeg_args.t > 0
            /\ ffmpeg_args.ss = ffmpeg_args.start_sec
            /\ length >= 1 => ffmpeg_args.t = length
            /\ length <= 0 => ffmpeg_args.t = 1

C19_Witness ==
    /\ pl_last.requested
    /\ pl_last.rec.fields = [summary |-> PyStr(<<"S">>), start_sec |-> 100, end_sec |-> 30]
    /\ pl_last.window = Window(80, 50)
    /\ ffmpeg_args.called
    /\ ffmpeg_args.t = 1

----------------------------------------------------------------------------
(* Properties of analysis.py *)

\* the positions of a token in the response
PositionsOf(ch) == {k \in 1..Len(raw.val) : raw.val[k] = ch}
Lowest(S) == CHOOSE k \in S : \A m \in S : k <= m
Highest(S) == CHOOSE k \in S : \A m \in S : m <= k
\* the response from its first `open` to its last `close`
Between(open, close) ==
    SubSeq(raw.val, Lowest(PositionsOf(open)), Highest(PositionsOf(close)))

\* C13: analyze_with_transcript never raises and returns: the parse of the whole
\* response when it is JSON; else, when the response has both "[" and "]" and
\* the text from the first "[" to the last "]" is JSON, the parse of that text;
\* else (no bracket, "]" before "[", text between them not JSON) the empty list.
C13_ThreeStageFallback ==
    parsed.by = "analyze_with_transcript" =>
        /\ ~parsed.raised
        /\ IF Loads(raw.val).ok
             THEN parsed.val = Loads(raw.val).val
           ELSE IF /\ PositionsOf("[") # {}
                   /\ PositionsOf("]") # {}
                   /\ Loads(Between("[", "]")).ok
             THEN parsed.val = Loads(Between("[", "]")).val
           ELSE parsed.val = JList(<<>>)

C13_Witness ==
    /\ parsed.by = "analyze_with_transcript"
    /\ raw = SomeStr(<<"x", "[", "1", "]">>)
    /\ parsed.val = JList(<<JInt(1)>>)

\* C14: when the response is a text that is not JSON and no part of it from a
\* "{" to a "}" is JSON (a response without "{" or without "}" included),
\* find_candidate_seconds returns {"candidates": [], "notes": "Parsing failed"}.
C14_SentinelWhenNothingParses ==
    (/\ parsed.by = "find_candidate_seconds"
     /\ Truthy(raw)
     /\ ~Loads(raw.val).ok
     /\ \A i \in PositionsOf("{"), j \in PositionsOf("}") :
           ~Loads(SubSeq(raw.val, i, j)).ok) =>
        parsed.val = ParsingFailed

\* C15: analyze_with_transcript returns a list, whatever the response.
C15_AlwaysAList ==
    parsed.by = "analyze_with_transcript" => parsed.val.type = "list"

----------------------------------------------------------------------------
(* Properties of flatten_segments_text *)

\* the whole seconds of a time in tenths, the fraction dropped
WholeSeconds(tenths) ==
    CHOOSE sec \in -200..200 :
        IF tenths >= 0 THEN sec * 10 <= tenths /\ tenths < (sec + 1) * 10
        ELSE sec * 10 >= tenths /\ tenths > (sec - 1) * 10

\* C16: the text returned has one line per segment, in the order of the
\* segments, line j showing start and end of segment j in whole seconds with
\* the fraction dropped; for no segment it is the empty string.
C16_OneLinePerSegment ==
    flat.called =>
        /\ segments = <<>> => flat.out = <<>>
        /\ segments # <<>> =>
              LET lines == SplitLines(flat.out)
              IN  /\ Len(lines) = Len(segments)
                  /\ \A j \in 1..Len(segments) :
                        LET f == segments[j].fields
                            start_s == IF "start" \in DOMAIN f
                                         THEN WholeSeconds(f.start) ELSE 0
                            end_s == IF "end" \in DOMAIN f THEN WholeSeconds(f.end)
                                     ELSE Max2(start_s, 0)
                            head == <<"[">> \o RightAligned3(start_s) \o <<"-">>
                                      \o RightAligned3(end_s) \o <<"s", "]", " ">>
                        IN  SubSeq(lines[j], 1, Len(head)) = head

----------------------------------------------------------------------------
(* Properties of text_to_adf *)

\* a line with a character that is not whitespace
NonBlank(line) == \E k \in 1..Len(line) : line[k] \notin Whitespace

\* C17: for a string, text_to_adf returns a document with one paragraph for
\* each non-blank line, in the order of the lines, so none for the empty
\* string and none for a text of whitespace only.
C17_OneParagraphPerNonBlankLine ==
    (adf_doc.called /\ adf_text.type = "str") =>
        LET kept == SelectSeq(SplitLines(adf_text.s), NonBlank)
        IN  /\ ~adf_doc.raised
            /\ Len(adf_doc.doc.content) = Len(kept)
            /\ \A j \in 1..Len(kept) :
                  adf_doc.doc.content[j] = Paragraph(<<TextNode(Strip(kept[j]))>>)

====
